---- MODULE Spec2Model ----
(***************************************************************************)
(* RelationshipDataProcessor (chemgraphbuilder/relationship_data_processor) *)
(* as a state machine: the reference index and the column list built by    *)
(* _filter_and_clean_data, the per-partition transformation of             *)
(* _process_file.process_partition run by parallel workers, the two output *)
(* files they append to, and the activity classifier                       *)
(* _determine_labels_and_activity as an operator over character sequences. *)
(***************************************************************************)
EXTENDS Integers, Sequences, FiniteSets, TLC

(***************************************************************************)
(* Cell values.  A pandas cell of an object column is missing, a number or *)
(* a string.  A number is i + d/10 (d = 0 for an integral value); a string *)
(* is its sequence of characters, so that find(), lower() and the regular  *)
(* expressions are computed character by character.                        *)
(***************************************************************************)
NA == [t |-> "na", i |-> 0, d |-> 0, s |-> <<>>]
Num(i) == [t |-> "num", i |-> i, d |-> 0, s |-> <<>>]
Flt(i, d) == [t |-> "num", i |-> i, d |-> d, s |-> <<>>]
Str(s) == [t |-> "str", i |-> 0, d |-> 0, s |-> s]
isna(c) == c.t = "na"
isstr(c) == c.t = "str"

(***************************************************************************)
(* str.lower(), str.find() and re.search() on character sequences.         *)
(***************************************************************************)
UpperToLower ==
    [c \in {"A","B","C","D","E","F","G","H","I","J","K","L","M","N","O","P","Q",
            "R","S","T","U","V","W","X","Y","Z"} |->
        CASE c = "A" -> "a" [] c = "B" -> "b" [] c = "C" -> "c" [] c = "D" -> "d"
          [] c = "E" -> "e" [] c = "F" -> "f" [] c = "G" -> "g" [] c = "H" -> "h"
          [] c = "I" -> "i" [] c = "J" -> "j" [] c = "K" -> "k" [] c = "L" -> "l"
          [] c = "M" -> "m" [] c = "N" -> "n" [] c = "O" -> "o" [] c = "P" -> "p"
          [] c = "Q" -> "q" [] c = "R" -> "r" [] c = "S" -> "s" [] c = "T" -> "t"
          [] c = "U" -> "u" [] c = "V" -> "v" [] c = "W" -> "w" [] c = "X" -> "x"
          [] c = "Y" -> "y" [] c = "Z" -> "z"]
lower_char(ch) == IF ch \in DOMAIN UpperToLower THEN UpperToLower[ch] ELSE ch

RECURSIVE lower(_)
lower(s) ==
    IF Len(s) = 0 THEN <<>>
    ELSE IF Len(s) = 1 THEN <<lower_char(s[1])>>
    ELSE LET half == Len(s) \div 2
         IN  lower(SubSeq(s, 1, half)) \o lower(SubSeq(s, half + 1, Len(s)))

\* kw occurs in text at 0-based offset p
MatchAt(text, kw, p) ==
    /\ p + Len(kw) <= Len(text)
    /\ \A j \in 1..Len(kw) : text[p + j] = kw[j]

RECURSIVE FindFrom(_, _, _)
FindFrom(text, kw, p) ==
    IF p + Len(kw) > Len(text) THEN -1
    ELSE IF MatchAt(text, kw, p) THEN p
    ELSE FindFrom(text, kw, p + 1)

\* str.find: the lowest offset at which kw occurs, -1 when it does not
find(text, kw) == FindFrom(text, kw, 0)

\* re.search of one alternative "a.*b" ('.' does not match a newline);
\* an alternative without ".*" has b = <<>>
SearchAlt(text, a, b) ==
    \E p \in 0..Len(text) :
        /\ MatchAt(text, a, p)
        /\ \E q \in (p + Len(a))..Len(text) :
              /\ MatchAt(text, b, q)
              /\ \A k \in (p + Len(a) + 1)..q : text[k] # "\n"

\* str.contains without case=False
str_contains_case_sensitive(cell, alts) ==
    /\ isstr(cell)
    /\ \E n \in 1..Len(alts) : SearchAlt(cell.s, alts[n][1], alts[n][2])

\* Series.str.contains(pattern, case=False, regex=True) for one cell: a
\* missing or non-string cell gives NaN, which the mask treats as False
str_contains(cell, alts) ==
    /\ isstr(cell)
    /\ \E n \in 1..Len(alts) : SearchAlt(lower(cell.s), alts[n][1], alts[n][2])

(***************************************************************************)
(* Keyword tables of _determine_labels_and_activity.                       *)
(***************************************************************************)
inhibitor_keywords == <<
    <<"i","n","h","i","b","i","t","i","o","n">>, <<"r","e","v","e","r","s","i","b","l","e"," ","i","n","h","i","b","i","t","i","o","n">>, <<"t","i","m","e"," ","d","e","p","e","n","d","e","n","t"," ","i","n","h","i","b","i","t","i","o","n">>,
    <<"i","n","h","i","b","i","t","o","r","y"," ","a","c","t","i","v","i","t","y">>, <<"t","i","m","e","-","d","e","p","e","n","d","e","n","t"," ","i","n","h","i","b","i","t","i","o","n">>, <<"t","i","m","e"," ","d","e","p","e","n","d","e","n","t"," ","i","r","r","e","v","e","r","s","i","b","l","e"," ","i","n","h","i","b","i","t","i","o","n">>,
    <<"i","n","h","i","b","i","t","o","r","y"," ","c","o","n","c","e","n","t","r","a","t","i","o","n">>, <<"i","n","h","i","b","i","t","o","r","y"," ","e","f","f","e","c","t">>, <<"i","n","h","i","b","i","t","o","r","y"," ","p","o","t","e","n","c","y">>,
    <<"c","o","n","c","e","n","t","r","a","t","i","o","n"," ","r","e","q","u","i","r","e","d"," ","t","o"," ","i","n","h","i","b","i","t">>, <<"c","o","m","p","e","t","i","t","i","v","e"," ","i","n","h","i","b","i","t","i","o","n">>, <<"c","y","p"," ","i","n","h","i","b","i","t","i","o","n">>,
    <<"i","r","r","e","v","e","r","s","i","b","l","e"," ","i","n","h","i","b","i","t","i","o","n">>, <<"m","e","c","h","a","n","i","s","m"," ","b","a","s","e","d"," ","i","n","h","i","b","i","t","i","o","n">>, <<"m","i","x","e","d"," ","i","n","h","i","b","i","t","i","o","n">>,
    <<"m","i","x","e","d"," ","t","y","p","e"," ","i","n","h","i","b","i","t","i","o","n">>, <<"i","n","h","i","b","i","t","o","r","y"," ","c","o","n","s","t","a","n","t">>, <<"a","n","t","a","g","o","n","i","s","t","i","c"," ","a","c","t","i","v","i","t","y">>, <<"s","e","l","e","c","t","i","v","i","t","y">>,
    <<"s","1","p","4"," ","a","g","o","n","i","s","t","s">>, <<"s","m","a","l","l"," ","m","o","l","e","c","u","l","e"," ","a","n","t","a","g","o","n","i","s","t","s">>, <<"d","i","s","p","l","a","c","e","m","e","n","t">>, <<"m","e","d","i","a","t","e","d"," ","m","i","d","a","z","o","l","a","m"," ","1","-","h","y","d","r","o","x","y","l","a","t","i","o","n">>,
    <<"t","i","m","e","/","n","a","d","p","h","-","d","e","p","e","n","d","e","n","t"," ","i","n","h","i","b","i","t","i","o","n">>, <<"r","e","v","e","r","s","a","l"," ","i","n","h","i","b","i","t","i","o","n">>, <<"m","e","c","h","a","n","i","s","m","-","b","a","s","e","d"," ","i","n","h","i","b","i","t","i","o","n">>,
    <<"m","e","c","h","a","n","i","s","m"," ","b","a","s","e","d"," ","t","i","m","e"," ","d","e","p","e","n","d","e","n","t"," ","i","n","h","i","b","i","t","i","o","n">>, <<"r","e","v","e","r","s","i","b","l","e"," ","c","o","m","p","e","t","i","t","i","v","e"," ","i","n","h","i","b","i","t","i","o","n">>,
    <<"p","r","e","d","i","c","t","i","v","e"," ","c","o","m","p","e","t","i","t","i","v","e"," ","i","n","h","i","b","i","t","i","o","n">>, <<"n","o","n","c","o","m","p","e","t","i","t","i","v","e"," ","i","n","h","i","b","i","t","i","o","n">>, <<"i","n"," ","v","i","t","r","o"," ","i","n","h","i","b","i","t","o","r","y">>,
    <<"i","n"," ","v","i","t","r","o"," ","i","n","h","i","b","i","t","i","o","n">>, <<"i","n","h","i","b","i","t","i","o","n"," ","o","f">>, <<"d","i","r","e","c","t"," ","i","n","h","i","b","i","t","i","o","n">>, <<"e","n","z","y","m","e"," ","i","n","h","i","b","i","t","i","o","n">>, <<"d","n","d","i">>,
    <<"i","n","h","i","b","i","t","i","o","n"," ","a","s","s","a","y">> >>

ligand_keywords == <<
    <<"b","i","n","d","i","n","g"," ","a","f","f","i","n","i","t","y">>, <<"s","p","e","c","t","r","a","l"," ","b","i","n","d","i","n","g">>, <<"i","n","t","e","r","a","c","t","i","o","n"," ","w","i","t","h">>, <<"b","i","n","d">>,
    <<"c","o","v","a","l","e","n","t"," ","b","i","n","d","i","n","g"," ","a","f","f","i","n","i","t","y">>, <<"a","p","p","a","r","e","n","t"," ","b","i","n","d","i","n","g"," ","a","f","f","i","n","i","t","y">> >>

inhibitor_substrate_keywords == << <<"i","n","h","i","b","i","t","o","r","s"," ","a","n","d"," ","s","u","b","s","t","r","a","t","e","s">> >>

inhibitor_activator_modulator_keywords == <<
    <<"a","p","o","p","r","o","t","e","i","n"," ","f","o","r","m","a","t","i","o","n">>, <<"p","a","n","e","l"," ","a","s","s","a","y">>, <<"e","u","r","o","f","i","n","s","-","p","a","n","l","a","b","s"," ","e","n","z","y","m","e"," ","a","s","s","a","y">> >>

substrate_keywords == <<
    <<"d","r","u","g"," ","m","e","t","a","b","o","l","i","s","m">>, <<"p","r","o","d","r","u","g">>, <<"m","e","t","a","b","o","l","i","c">>, <<"o","x","i","d","a","t","i","o","n">>, <<"s","u","b","s","t","r","a","t","e"," ","a","c","t","i","v","i","t","y">>,
    <<"m","i","c","h","a","e","l","i","s","-","m","e","n","t","e","n">>, <<"m","e","t","a","b","o","l","i","c"," ","s","t","a","b","i","l","i","t","y">>, <<"b","i","o","a","c","t","i","v","a","t","i","o","n">>, <<"d","r","u","g"," ","l","e","v","e","l">>,
    <<"e","n","z","y","m","e","-","m","e","d","i","a","t","e","d"," ","d","r","u","g"," ","d","e","p","l","e","t","i","o","n">>, <<"e","n","z","y","m","e","-","m","e","d","i","a","t","e","d"," ","c","o","m","p","o","u","n","d"," ","f","o","r","m","a","t","i","o","n">>,
    <<"p","h","e","n","o","t","y","p","i","n","g">>, <<"a","c","t","i","v","i","t","y"," ","o","f"," ","h","u","m","a","n"," ","r","e","c","o","m","b","i","n","a","n","t"," ","c","y","p">>, <<"a","c","t","i","v","i","t","y"," ","o","f"," ","r","e","c","o","m","b","i","n","a","n","t"," ","c","y","p">>,
    <<"a","c","t","i","v","i","t","y"," ","a","t"," ","c","y","p">>, <<"e","n","z","y","m","e","-","m","e","d","i","a","t","e","d"," ","d","r","u","g"," ","m","e","t","a","b","o","l","i","s","m">> >>

inactivator_keywords == <<
    <<"i","n","a","c","t","i","v","a","t","o","r">>, <<"i","n","a","c","t","i","v","a","t","i","o","n"," ","o","f">>, <<"m","e","c","h","a","n","i","s","m"," ","b","a","s","e","d"," ","i","n","a","c","t","i","v","a","t","i","o","n"," ","o","f">>, <<"i","n","a","c","t","i","v","a","t","o","r","s">>,
    <<"m","e","t","a","b","o","l","i","s","m"," ","d","e","p","e","n","d","e","n","t"," ","i","n","a","c","t","i","v","a","t","i","o","n">> >>

activator_keywords == << <<"a","s","s","a","y"," ","f","o","r"," ","a","c","t","i","v","a","t","o","r","s">>, <<"a","c","t","i","v","a","t","i","o","n"," ","o","f">>, <<"a","c","t","i","v","a","t","o","r","s"," ","o","f">> >>

inducer_keywords == << <<"i","n","d","u","c","t","i","o","n"," ","o","f">>, <<"i","n","d","u","c","e","r">>, <<"i","n","d","u","c","e","r","s">>, <<"t","i","m","e","-","d","e","p","e","n","d","a","n","t"," ","i","n","d","u","c","t","i","o","n">> >>

all_keywords ==
    inhibitor_keywords \o ligand_keywords \o inhibitor_substrate_keywords \o
    inhibitor_activator_modulator_keywords \o substrate_keywords \o
    inactivator_keywords \o activator_keywords \o inducer_keywords

\* The activity labels
Inactive == Str(<<"I","n","a","c","t","i","v","e">>)
Inhibitor == Str(<<"I","n","h","i","b","i","t","o","r">>)
Ligand == Str(<<"L","i","g","a","n","d">>)
InhibitorSubstrate == Str(<<"I","n","h","i","b","i","t","o","r","/","S","u","b","s","t","r","a","t","e">>)
InhibitorInducerModulator == Str(<<"I","n","h","i","b","i","t","o","r","/","I","n","d","u","c","e","r","/","M","o","d","u","l","a","t","o","r">>)
Substrate == Str(<<"S","u","b","s","t","r","a","t","e">>)
Inactivator == Str(<<"I","n","a","c","t","i","v","a","t","o","r">>)
Activator == Str(<<"A","c","t","i","v","a","t","o","r">>)
Inducer == Str(<<"I","n","d","u","c","e","r">>)

InSeq(x, seq) == \E n \in 1..Len(seq) : seq[n] = x

\* keyword_to_label: a dict built from the lists in this order, a later
\* entry replacing an earlier one with the same key
keyword_groups == <<
    <<inhibitor_keywords, Inhibitor>>,
    <<inhibitor_substrate_keywords, InhibitorSubstrate>>,
    <<inhibitor_activator_modulator_keywords, InhibitorInducerModulator>>,
    <<substrate_keywords, Substrate>>,
    <<inactivator_keywords, Inactivator>>,
    <<activator_keywords, Activator>>,
    <<inducer_keywords, Inducer>>,
    <<ligand_keywords, Ligand>> >>

keyword_to_label(keyword) ==
    LET hits == {g \in 1..Len(keyword_groups) : InSeq(keyword, keyword_groups[g][1])}
        last == CHOOSE g \in hits : \A h \in hits : h <= g
    IN  keyword_groups[last][2]

\* The iteration with "position <= first_position": a keyword found at the
\* position of first_keyword replaces it
scan_step_ties_to_later(assay_name_lower, n, state) ==
    LET position == find(assay_name_lower, all_keywords[n])
    IN  IF 0 <= position /\ position <= state[2] THEN <<n, position>> ELSE state

\* One iteration of the loop of determine_active_label, for the n-th keyword
\* of all_keywords: state is <<index of first_keyword (0 for None),
\* first_position>>
scan_step(assay_name_lower, n, state) ==
    LET position == find(assay_name_lower, all_keywords[n])
    IN  IF 0 <= position /\ position < state[2] THEN <<n, position>> ELSE state

\* The iterations for the keywords lo..hi, in list order.  Once
\* first_position is 0 no later keyword can replace first_keyword, and the
\* remaining iterations are skipped.
RECURSIVE scan_keywords(_, _, _, _)
scan_keywords(assay_name_lower, lo, hi, state) ==
    IF state[2] = 0 \/ lo > hi THEN state
    ELSE IF lo = hi THEN scan_step(assay_name_lower, lo, state)
    ELSE LET mid == (lo + hi) \div 2
         IN  scan_keywords(assay_name_lower, mid + 1, hi,
                           scan_keywords(assay_name_lower, lo, mid, state))

\* first_keyword when the loop has ended, as its index in all_keywords (0
\* for None)
first_keyword(assay_name) ==
    LET assay_name_lower == lower(assay_name)
    IN  scan_keywords(assay_name_lower, 1, Len(all_keywords), <<0, Len(assay_name_lower)>>)[1]

determine_active_label(assay_name) ==
    IF first_keyword(assay_name) # 0 THEN keyword_to_label(all_keywords[first_keyword(assay_name)])
    ELSE InhibitorInducerModulator

substrate_pattern == <<
    <<<<"a","c","t","i","v","i","t","y"," ","o","f">>, <<"o","x","i","d","a","t","i","o","n">>>>,
    <<<<"a","c","t","i","v","i","t","y"," ","a","t"," ","c","y","p">>, <<"p","h","e","n","o","t","y","p","i","n","g">>>>,
    <<<<"a","c","t","i","v","i","t","y"," ","a","t"," ","h","u","m","a","n"," ","r","e","c","o","m","b","i","n","a","n","t"," ","c","y","p">>, <<"f","o","r","m","a","t","i","o","n">>>>,
    <<<<"a","c","t","i","v","i","t","y"," ","a","t"," ","r","e","c","o","m","b","i","n","a","n","t"," ","c","y","p">>, <<"f","o","r","m","a","t","i","o","n">>>> >>

ActIndMod_pattern == <<
    <<<<"e","f","f","e","c","t"," ","o","n"," ","c","y","p">>, <<>> >>,
    <<<<"e","f","f","e","c","t"," ","o","n"," ","h","u","m","a","n"," ","r","e","c","o","m","b","i","n","a","n","t"," ","c","y","p">>, <<>> >>,
    <<<<"e","f","f","e","c","t"," ","o","n"," ","r","e","c","o","m","b","i","n","a","n","t"," ","c","y","p">>, <<>> >>,
    <<<<"e","f","f","e","c","t"," ","o","n"," ","h","u","m","a","n"," ","c","y","p">>, <<>> >> >>

inducer_pattern == <<
    <<<<"e","f","f","e","c","t"," ","o","n"," ","c","y","p">>, <<"i","n","d","u","c","t","i","o","n">>>>,
    <<<<"i","n","d","u","c","t","i","o","n"," ","o","f">>, <<>> >> >>

decreasing_pattern == << <<<<"d","e","c","r","e","a","s","i","n","g">>, <<>> >> >>
increasing_pattern == << <<<<"i","n","c","r","e","a","s","i","n","g">>, <<>> >> >>

SpecialAid == 1215398

(***************************************************************************)
(* _determine_labels_and_activity on the rows of a frame (a sequence of    *)
(* records, one field per column).  Each statement of the function is one  *)
(* masked assignment; a mask is evaluated on the input columns, which the  *)
(* function never changes.  The result is [raised, rows]: the .apply of    *)
(* determine_active_label raises AttributeError when an Active row has an  *)
(* assay_name that is not a string.                                        *)
(***************************************************************************)
Active == Str(<<"A","c","t","i","v","e">>)
InactiveOutcome == Str(<<"I","n","a","c","t","i","v","e">>)

\* merged_df.loc[mask, 'activity'] = label
loc_assign(rows, mask, label) ==
    [r \in 1..Len(rows) |-> IF mask[r] THEN [rows[r] EXCEPT !.activity = label] ELSE rows[r]]

\* active_mask & merged_df['activity_name'].isin(['Km', 'Drug metabolism'])
mask_activity_name(rows, active_mask) ==
    [r \in 1..Len(rows) |->
        active_mask[r] /\ rows[r].activity_name \in {Str(<<"K","m">>), Str(<<"D","r","u","g"," ","m","e","t","a","b","o","l","i","s","m">>)}]

\* The mask of a pattern without active_mask
mask_contains_any_outcome(rows, active_mask, col, pattern) ==
    [r \in 1..Len(rows) |-> str_contains(rows[r][col], pattern)]

\* active_mask & merged_df[col].str.contains(pattern, case=False, regex=True)
mask_contains(rows, active_mask, col, pattern) ==
    [r \in 1..Len(rows) |-> active_mask[r] /\ str_contains(rows[r][col], pattern)]

\* aid compared with the text '1215398'
mask_special_aid_as_text(rows, active_mask) ==
    [r \in 1..Len(rows) |-> active_mask[r] /\ rows[r].aid = Str(<<"1","2","1","5","3","9","8">>)]

\* active_mask & (merged_df['aid'] == 1215398)
mask_special_aid(rows, active_mask) ==
    [r \in 1..Len(rows) |-> active_mask[r] /\ rows[r].aid = Num(SpecialAid)]

\* merged_df.loc[active_mask, 'assay_name'].apply(determine_active_label) for
\* one value.  The labels of the assay names of the model are computed once.
ModelAssayNames ==
    {<<"C","Y","P","3","A","4"," ","i","n","h","i","b","i","t","i","o","n"," ","a","s","s","a","y">>, <<"i","n","d","u","c","t","i","o","n"," ","o","f"," ","C","Y","P","1","A","2">>, <<"B","i","n","d","i","n","g"," ","a","f","f","i","n","i","t","y"," ","t","o"," ","C","Y","P","2","D","6">>,
     <<"A","c","t","i","v","i","t","y"," ","o","f"," ","C","Y","P","3","A","4"," ","o","x","i","d","a","t","i","o","n">>, <<"E","f","f","e","c","t"," ","o","n"," ","C","Y","P"," ","i","n","h","i","b","i","t","i","o","n">>, <<"E","f","f","e","c","t"," ","o","n"," ","C","Y","P"," ","i","n","d","u","c","t","i","o","n">>,
     <<"C","y","t","o","t","o","x","i","c","i","t","y">>}
computed_labels == {<<name, determine_active_label(name)>> : name \in ModelAssayNames}

apply_determine_active_label(assay_name) ==
    IF assay_name \in ModelAssayNames
    THEN (CHOOSE p \in computed_labels : p[1] = assay_name)[2]
    ELSE determine_active_label(assay_name)

\* The masked assignments with the two activity_direction statements in the
\* other order
active_labels_increasing_first(rows, active_mask) ==
    LET s2 == [r \in 1..Len(rows) |->
                  IF active_mask[r]
                  THEN [rows[r] EXCEPT !.activity = apply_determine_active_label(rows[r].assay_name.s)]
                  ELSE rows[r]]
        s3 == loc_assign(s2, mask_activity_name(rows, active_mask), Substrate)
        s4 == loc_assign(s3, mask_contains(rows, active_mask, "assay_name", substrate_pattern), Substrate)
        s5 == loc_assign(s4, mask_contains(rows, active_mask, "assay_name", ActIndMod_pattern),
                         InhibitorInducerModulator)
        s6 == loc_assign(s5, mask_contains(rows, active_mask, "assay_name", inducer_pattern), Inducer)
        s7 == loc_assign(s6, mask_contains(rows, active_mask, "activity_direction", increasing_pattern),
                         Activator)
        s8 == loc_assign(s7, mask_contains(rows, active_mask, "activity_direction", decreasing_pattern),
                         Inhibitor)
        s9 == loc_assign(s8, mask_special_aid(rows, active_mask), Inactivator)
    IN  s9

active_labels(rows, active_mask) ==
    LET s2 == [r \in 1..Len(rows) |->
                  IF active_mask[r]
                  THEN [rows[r] EXCEPT !.activity = apply_determine_active_label(rows[r].assay_name.s)]
                  ELSE rows[r]]
        s3 == loc_assign(s2, mask_activity_name(rows, active_mask), Substrate)
        s4 == loc_assign(s3, mask_contains(rows, active_mask, "assay_name", substrate_pattern), Substrate)
        s5 == loc_assign(s4, mask_contains(rows, active_mask, "assay_name", ActIndMod_pattern),
                         InhibitorInducerModulator)
        s6 == loc_assign(s5, mask_contains(rows, active_mask, "assay_name", inducer_pattern), Inducer)
        s7 == loc_assign(s6, mask_contains(rows, active_mask, "activity_direction", decreasing_pattern),
                         Inhibitor)
        s8 == loc_assign(s7, mask_contains(rows, active_mask, "activity_direction", increasing_pattern),
                         Activator)
        s9 == loc_assign(s8, mask_special_aid(rows, active_mask), Inactivator)
    IN  s9

\* The function with the outcome of inactive rows compared with 'inactive'
_determine_labels_inactive_lowercase(merged) ==
    LET s0 == [r \in 1..Len(merged) |-> [merged[r] EXCEPT !.activity = NA]]
        inactive_mask == [r \in 1..Len(merged) |-> merged[r].activity_outcome = Str(<<"i","n","a","c","t","i","v","e">>)]
        s1 == loc_assign(s0, inactive_mask, Inactive)
        active_mask == [r \in 1..Len(merged) |-> merged[r].activity_outcome = Active]
    IN  IF ~ \E r \in 1..Len(merged) : active_mask[r]
        THEN [raised |-> FALSE, rows |-> s1]
        ELSE IF \E r \in 1..Len(merged) : active_mask[r] /\ ~isstr(merged[r].assay_name)
        THEN [raised |-> TRUE, rows |-> <<>>]
        ELSE [raised |-> FALSE, rows |-> active_labels(s1, active_mask)]

_determine_labels_and_activity(merged) ==
    LET s0 == [r \in 1..Len(merged) |-> [merged[r] EXCEPT !.activity = NA]]
        inactive_mask == [r \in 1..Len(merged) |-> merged[r].activity_outcome = InactiveOutcome]
        s1 == loc_assign(s0, inactive_mask, Inactive)
        active_mask == [r \in 1..Len(merged) |-> merged[r].activity_outcome = Active]
    IN  IF ~ \E r \in 1..Len(merged) : active_mask[r]
        THEN [raised |-> FALSE, rows |-> s1]
        ELSE IF \E r \in 1..Len(merged) : active_mask[r] /\ ~isstr(merged[r].assay_name)
        THEN [raised |-> TRUE, rows |-> <<>>]
        ELSE [raised |-> FALSE, rows |-> active_labels(s1, active_mask)]

(***************************************************************************)
(* Frames.  A row is a record with one cell per column name of Columns; a  *)
(* frame is [columns, rows] where columns is df.columns in order and the   *)
(* cells of a row outside columns are NA and never read.                   *)
(***************************************************************************)
Columns == {"aid", "cid", "activity_outcome", "assay_name", "activity_name",
            "activity_direction", "phenotype", "sid", "target_geneid",
            "measured_activity", "activity_url", "activity"}

\* One iteration order of a Python set of column names (list(all_columns)
\* is in an unspecified but fixed order; the model takes this one)
ColumnOrder == <<"aid", "cid", "activity_outcome", "assay_name", "activity_name",
                 "activity_direction", "phenotype", "sid", "target_geneid",
                 "measured_activity", "activity_url", "activity">>

list_of(colset) == SelectSeq(ColumnOrder, LAMBDA c : c \in colset)
ColSet(cols) == {cols[n] : n \in 1..Len(cols)}
EmptyRow == [c \in Columns |-> NA]

\* df[col] = values, appending col to df.columns when it is a new column
add_column(cols, c) == IF c \in ColSet(cols) THEN cols ELSE Append(cols, c)

\* int(x): truncation of a number; raises ValueError for a string
can_int(c) == c.t = "num"
int(c) == c.i

RECURSIVE Digits(_)
Digits(n) ==
    LET ds == <<"0","1","2","3","4","5","6","7","8","9">>
    IN  IF n < 10 THEN <<ds[n + 1]>> ELSE Digits(n \div 10) \o <<ds[(n % 10) + 1]>>

\* f"{x}" of a cell
format(c) ==
    CASE c.t = "na" -> <<"n","a","n">>
      [] c.t = "str" -> c.s
      [] c.t = "num" /\ c.d = 0 -> Digits(c.i)
      [] OTHER -> Digits(c.i) \o <<".">> \o Digits(c.d)

(***************************************************************************)
(* _load_all_data_connected: one dict per partition of the master file,    *)
(* merged with dict.update in partition order.  A dict is a function from  *)
(* keys <<int(aid), int(cid), activity_outcome>> to rows.                  *)
(***************************************************************************)
key_of(row) == <<int(row.aid), int(row.cid), row.activity_outcome>>

RECURSIVE dict_of_rows(_, _)
dict_of_rows(rows, result) ==
    IF rows = <<>> THEN result
    ELSE LET row == Head(rows)
             key == key_of(row)
         IN  dict_of_rows(Tail(rows),
                 [k \in DOMAIN result \cup {key} |-> IF k = key THEN row ELSE result[k]])

load_partition(partition) ==
    dict_of_rows(SelectSeq(partition, LAMBDA row : ~isna(row.aid) /\ ~isna(row.cid)), <<>>)

\* d.update(e)
update(d, e) == [k \in DOMAIN d \cup DOMAIN e |-> IF k \in DOMAIN e THEN e[k] ELSE d[k]]

RECURSIVE merge_results(_, _)
merge_results(results, acc) ==
    IF results = <<>> THEN acc
    ELSE merge_results(Tail(results), update(acc, Head(results)))

\* The results taken in the order in which the tasks completed
compute_as_completed(task_results, order) ==
    [n \in 1..Len(order) |-> task_results[order[n]].dict]

\* results = dask.compute(*[process_partition(part) for part in partitions]):
\* the results come in the order of the arguments, whatever the order in
\* which the tasks completed
compute(task_results, order) ==
    [n \in 1..Len(task_results) |-> task_results[n].dict]

_load_all_data_connected(delayed) ==
    merge_results([n \in 1..Len(delayed) |-> load_partition(delayed[n])], <<>>)

(***************************************************************************)
(* The steps of _process_file.process_partition on the rows of one         *)
(* partition.                                                              *)
(***************************************************************************)
\* ddf.dropna(subset=['cid']) of _process_file, applied to every partition
dropna_cid(rows) == SelectSeq(rows, LAMBDA row : ~isna(row.cid))

\* df.reindex(columns=unique_column_names, fill_value=pd.NA): the columns
\* become unique_column_names; a column the partition lacks is all NA and a
\* column of the partition that is not listed is dropped
reindex(rows, have, names) ==
    [r \in 1..Len(rows) |->
        [c \in Columns |-> IF c \in have /\ c \in ColSet(names) THEN rows[r][c] ELSE NA]]

\* df.dropna(subset=['aid', 'cid'], how='any')
dropna_aid_cid(rows) == SelectSeq(rows, LAMBDA row : ~isna(row.aid) /\ ~isna(row.cid))

\* phenotype_cols of _process_file: the file's columns that start with
\* 'phenotype'
phenotype_cols_of(have) == list_of(have \cap {"phenotype"})

\* row.mode()[0] over the phenotype columns, None when all are missing; with
\* one phenotype column the mode is its value
row_mode(row, phenotype_cols) ==
    LET present == {n \in 1..Len(phenotype_cols) : ~isna(row[phenotype_cols[n]])}
    IN  IF present = {} THEN NA
        ELSE row[phenotype_cols[CHOOSE n \in present : \A m \in present : n <= m]]

set_measured_activity(rows, phenotype_cols) ==
    [r \in 1..Len(rows) |-> [rows[r] EXCEPT !.measured_activity = row_mode(rows[r], phenotype_cols)]]

\* _add_all_data_connected_info(row) with the dict adc whose records have
\* the columns ref_cols.  A key whose activity_outcome is missing is never
\* found: NaN is not equal to NaN.
key_found(row, adc) == ~isna(row.activity_outcome) /\ key_of(row) \in DOMAIN adc

\* _add_all_data_connected_info that keeps the values the row already has
\* and takes those of the record for its missing fields only
_add_info_to_missing_fields(row, adc, ref_cols) ==
    IF key_found(row, adc)
    THEN [c \in Columns |-> IF c \in ref_cols /\ isna(row[c]) THEN adc[key_of(row)][c] ELSE row[c]]
    ELSE row

_add_all_data_connected_info(row, adc, ref_cols) ==
    IF key_found(row, adc)
    THEN [c \in Columns |-> IF c \in ref_cols THEN adc[key_of(row)][c] ELSE row[c]]
    ELSE row

\* _add_all_data_connected_info with the row stored back as the record of
\* its key
all_data_connected_with_row_stored(row, adc, ref_cols) ==
    IF key_found(row, adc) THEN [adc EXCEPT ![key_of(row)] = row] ELSE adc

\* self.all_data_connected after _add_all_data_connected_info(row): the loop
\* of lines 91-92 reads additional_info and assigns into row only
all_data_connected_after(row, adc, ref_cols) == adc

\* self.all_data_connected after df.apply(self._add_all_data_connected_info,
\* axis=1): the rows in order, up to the first one whose key int() rejects
RECURSIVE all_data_connected_after_apply(_, _, _)
all_data_connected_after_apply(rows, adc, ref_cols) ==
    IF rows = <<>> THEN adc
    ELSE IF ~can_int(Head(rows).aid) \/ ~can_int(Head(rows).cid) THEN adc
    ELSE all_data_connected_after_apply(Tail(rows),
             all_data_connected_after(Head(rows), adc, ref_cols), ref_cols)

\* propagate_phenotype with the last non-missing phenotype of the group
propagate_last_phenotype(group) ==
    LET present == {n \in 1..Len(group) : ~isna(group[n].phenotype)}
    IN  IF present = {} THEN group
        ELSE LET last == group[CHOOSE n \in present : \A m \in present : m <= n].phenotype
             IN  [n \in 1..Len(group) |-> [group[n] EXCEPT !.phenotype = last]]

\* propagate_phenotype(group): the first non-missing phenotype of the group
\* is given to every row of the group
propagate_phenotype(group) ==
    LET present == {n \in 1..Len(group) : ~isna(group[n].phenotype)}
    IN  IF present = {} THEN group
        ELSE LET first == group[CHOOSE n \in present : \A m \in present : n <= m].phenotype
             IN  [n \in 1..Len(group) |-> [group[n] EXCEPT !.phenotype = first]]

\* Order of strings by code point, as Python sorts the group keys
CharOrder == <<" ","#","-",".","/","0","1","2","3","4","5","6","7","8","9",":","=","A","B","C","D","E","F","G","H","I","J","K","L","M","N","O","P","Q","R","S","T","U","V","W","X","Y","Z","_","a","b","c","d","e","f","g","h","i","j","k","l","m","n","o","p","q","r","s","t","u","v","w","x","y","z">>
CodePoint(ch) == CHOOSE n \in 1..Len(CharOrder) : CharOrder[n] = ch

RECURSIVE str_less(_, _)
str_less(a, b) ==
    IF b = <<>> THEN FALSE
    ELSE IF a = <<>> THEN TRUE
    ELSE IF Head(a) = Head(b) THEN str_less(Tail(a), Tail(b))
    ELSE CodePoint(Head(a)) < CodePoint(Head(b))

group_key(row) == <<row.activity_outcome.s, row.assay_name.s>>
key_less(k, l) == str_less(k[1], l[1]) \/ (k[1] = l[1] /\ str_less(k[2], l[2]))

RECURSIVE sorted_keys(_)
sorted_keys(keys) ==
    IF keys = {} THEN <<>>
    ELSE LET least == CHOOSE k \in keys : \A l \in keys \ {k} : key_less(k, l)
         IN  <<least>> \o sorted_keys(keys \ {least})

RECURSIVE concat_groups(_, _)
concat_groups(rows, keys) ==
    IF keys = <<>> THEN <<>>
    ELSE propagate_phenotype(SelectSeq(rows, LAMBDA row : group_key(row) = Head(keys)))
            \o concat_groups(rows, Tail(keys))

\* df['activity_outcome'].notna().all()
activity_outcome_notna_all(rows) == \A r \in 1..Len(rows) : ~isna(rows[r].activity_outcome)

\* df.groupby(['activity_outcome', 'assay_name']).apply(propagate_phenotype)
\*   .reset_index(drop=True): groupby leaves out the rows whose key has a
\* missing part and yields the groups in sorted key order
groupby_propagate(rows) ==
    LET kept == SelectSeq(rows, LAMBDA row : ~isna(row.activity_outcome) /\ ~isna(row.assay_name))
    IN  concat_groups(kept, sorted_keys({group_key(kept[n]) : n \in 1..Len(kept)}))

url_prefix == <<"h","t","t","p","s",":","/","/","p","u","b","c","h","e","m",".","n","c","b","i",".","n","l","m",".","n","i","h",".","g","o","v","/","b","i","o","a","s","s","a","y","/">>

set_activity_url(rows, cols) ==
    [r \in 1..Len(rows) |->
        [rows[r] EXCEPT !.activity_url =
            IF "sid" \in ColSet(cols)
            THEN Str(url_prefix \o format(rows[r].aid) \o <<"#","s","i","d","=">> \o format(rows[r].sid))
            ELSE NA]]

\* The filter of the sentinel row computed but not assigned back to df
drop_sentinel_not_assigned(rows) == rows

\* df = df[(df['aid'] != 1) | (df['cid'] != 1)]
drop_sentinel(rows) == SelectSeq(rows, LAMBDA row : row.aid # Num(1) \/ row.cid # Num(1))

RECURSIVE add_columns(_, _)
add_columns(cols, new) ==
    IF new = <<>> THEN cols ELSE add_columns(add_column(cols, Head(new)), Tail(new))

\* The columns the classifier reads: a missing one raises KeyError
classifier_columns(rows) ==
    IF \E r \in 1..Len(rows) : rows[r].activity_outcome = Active
    THEN {"activity_outcome", "assay_name", "activity_name", "activity_direction", "aid"}
    ELSE {"activity_outcome"}

\* df.apply(self._add_all_data_connected_info, axis=1): every row of the
\* frame is replaced by what the function returns for it
apply_add_all_data_connected_info(rows, adc, ref_cols) ==
    [r \in 1..Len(rows) |-> _add_all_data_connected_info(rows[r], adc, ref_cols)]

\* The frame given to df.apply(self._add_all_data_connected_info, axis=1)
rows_to_augment(part, have, names) ==
    set_measured_activity(dropna_aid_cid(reindex(dropna_cid(part), have, names)),
                          phenotype_cols_of(have))

\* The body of process_partition up to the writes, for the partition part of
\* a file whose columns are have.  The result is [status, columns, rows]:
\* status "raised" when a step raises (the except clause logs it), "empty"
\* when no row is left to write, "rows" when columns/rows are to be appended.
Raised == [status |-> "raised", columns |-> <<>>, rows |-> <<>>]
NoData == [status |-> "empty", columns |-> <<>>, rows |-> <<>>]

process_partition(part, have, names, adc, ref_cols) ==
    LET phenotype_cols == phenotype_cols_of(have)
        d1 == dropna_aid_cid(reindex(dropna_cid(part), have, names))
        d2 == rows_to_augment(part, have, names)
        c2 == add_column(names, "measured_activity")
        d3 == apply_add_all_data_connected_info(d2, adc, ref_cols)
        c3 == IF \E r \in 1..Len(d2) : key_found(d2[r], adc)
              THEN add_columns(c2, list_of(ref_cols)) ELSE c2
        propagate == /\ \E n \in 1..Len(phenotype_cols) : phenotype_cols[n] \in ColSet(c3)
                     /\ activity_outcome_notna_all(d3)
        d4 == IF propagate THEN groupby_propagate(d3) ELSE d3
        c4 == add_column(c3, "target_geneid")
        d5 == set_activity_url(d4, c4)
        c5 == add_column(c4, "activity_url")
        d6 == drop_sentinel(d5)
        labelled == _determine_labels_and_activity(d6)
        c6 == add_column(c5, "activity")
    IN  IF ~ {"aid", "cid"} \subseteq ColSet(names) THEN Raised
        ELSE IF d1 = <<>> THEN NoData
        ELSE IF ~ ColSet(phenotype_cols) \subseteq ColSet(names) THEN Raised
        ELSE IF "activity_outcome" \notin ColSet(names) THEN Raised
        ELSE IF \E r \in 1..Len(d2) : ~can_int(d2[r].aid) \/ ~can_int(d2[r].cid) THEN Raised
        ELSE IF propagate /\ ~ {"assay_name", "phenotype"} \subseteq ColSet(c3) THEN Raised
        ELSE IF ~ classifier_columns(d6) \subseteq ColSet(c5) THEN Raised
        ELSE IF labelled.raised THEN Raised
        ELSE IF labelled.rows = <<>> THEN NoData
        ELSE [status |-> "rows", columns |-> c6, rows |-> labelled.rows]

(***************************************************************************)
(* State.                                                                  *)
(***************************************************************************)
NumTasks == 2
Tasks == 1..NumTasks

VARIABLES
    csv_columns,          \* the normalised header of the source file
    partitions,           \* the partitions of the source file, one per task
    ref_columns,          \* the normalised header of AllDataConnected.csv
    all_data_connected,   \* self.all_data_connected
    unique_column_names,  \* the list built in _filter_and_clean_data
    output_file,          \* Assay_Compound_Relationship.csv: [exists, data]
    compound_gene_file,   \* Compound_Gene_Relationship.csv: [exists, data]
    main_pc,              \* position of _filter_and_clean_data
    pc,                   \* position of each partition task
    df,                   \* the frame each task holds after its transformation
    cursor,               \* how much of its frame a task has written to a file
    merged_df,            \* argument of a call of _determine_labels_and_activity
    result,               \* and what the call gave
    ref_partitions,       \* the partitions of AllDataConnected.csv
    results,              \* the dict of each partition task of the master file
    completed             \* those tasks in the order they completed

vars == <<csv_columns, partitions, ref_columns, all_data_connected, unique_column_names,
          output_file, compound_gene_file, main_pc, pc, df, cursor, merged_df, result,
          ref_partitions, results, completed>>

loading == <<ref_partitions, results, completed>>

inputs == <<csv_columns, partitions, ref_columns, all_data_connected>>

\* What a file holds: a sequence of pieces, each written by one write call.
\* A line of a frame is written in two pieces, its head and its tail (the
\* buffer of the file object may be flushed inside a line); the tail ends
\* the line.
HeaderLine(t) == [kind |-> "header", task |-> t, idx |-> 0, part |-> "tail"]
Piece(t, r, p) == [kind |-> "row", task |-> t, idx |-> r, part |-> p]
StaleLine == [kind |-> "stale", task |-> 0, idx |-> 0, part |-> "tail"]
NoFile == [exists |-> FALSE, data |-> <<>>]

\* The n-th piece (n = 1, 2, ...) of the rows of task t
NthPiece(t, n) == Piece(t, (n + 1) \div 2, IF n % 2 = 1 THEN "head" ELSE "tail")

(***************************************************************************)
(* _filter_and_clean_data.                                                 *)
(***************************************************************************)
\* os.remove of both output files when they exist
RemoveOutputs ==
    /\ main_pc = "remove"
    /\ output_file' = NoFile
    /\ compound_gene_file' = NoFile
    /\ main_pc' = "columns"
    /\ UNCHANGED <<loading, inputs, unique_column_names, pc, df, cursor, merged_df, result>>

\* _get_filtered_columns: the columns of the csv files and the keys of the
\* records of all_data_connected
_get_filtered_columns ==
    LET additional_columns == IF DOMAIN all_data_connected = {} THEN {} ELSE ref_columns
    IN  list_of(csv_columns \cup additional_columns)

GetColumns ==
    /\ main_pc = "columns"
    /\ unique_column_names' = _get_filtered_columns \o <<"activity">>
    /\ main_pc' = "headers"
    /\ UNCHANGED <<loading, inputs, output_file, compound_gene_file, pc, df, cursor, merged_df, result>>

\* pd.DataFrame(columns=...).to_csv(file, index=False) for both files
WriteHeaders ==
    /\ main_pc = "headers"
    /\ output_file' = [exists |-> TRUE, data |-> <<HeaderLine(0)>>]
    /\ compound_gene_file' = [exists |-> TRUE, data |-> <<HeaderLine(0)>>]
    /\ main_pc' = "read"
    /\ UNCHANGED <<loading, inputs, unique_column_names, pc, df, cursor, merged_df, result>>

\* The head of _process_file, outside any try: dd.read_csv, the lower-cased
\* columns and ddf.dropna(subset=['cid']), which raises KeyError for a file
\* without a cid column.  The exception leaves the delayed task and
\* dask.compute(*tasks) re-raises it in _filter_and_clean_data, which has no
\* handler either: process_files ends with the exception.
ReadFile ==
    /\ main_pc = "read"
    /\ main_pc' = IF "cid" \in csv_columns THEN "compute" ELSE "aborted"
    /\ UNCHANGED <<loading, inputs, unique_column_names, output_file, compound_gene_file, pc, df,
                   cursor, merged_df, result>>

(***************************************************************************)
(* One partition task of ddf.map_partitions(process_partition).compute().  *)
(***************************************************************************)
Transform(t) ==
    /\ main_pc = "compute"
    /\ pc[t] = "ready"
    /\ LET res == process_partition(partitions[t], csv_columns, unique_column_names,
                                    all_data_connected, ref_columns)
       IN  /\ df' = [df EXCEPT ![t] = res]
           /\ pc' = [pc EXCEPT ![t] = CASE res.status = "raised" -> "failed"
                                        [] res.status = "empty" -> "done"
                                        [] OTHER -> "append_rel"]
    /\ all_data_connected' =
           all_data_connected_after_apply(
               rows_to_augment(partitions[t], csv_columns, unique_column_names),
               all_data_connected, ref_columns)
    /\ UNCHANGED <<loading, csv_columns, partitions, ref_columns, unique_column_names, output_file,
                   compound_gene_file, main_pc, cursor, merged_df, result>>

\* to_csv(file, mode='a', header=True): the header is written by every
\* append
open_append_with_header(file, t) ==
    [exists |-> TRUE, data |-> IF file.exists THEN Append(file.data, HeaderLine(t))
                               ELSE <<HeaderLine(t)>>]

\* to_csv(file, mode='a', header=not os.path.exists(file)): the pieces a
\* task still has to write, the header first when the file does not exist
open_append(file, t) ==
    IF file.exists THEN file ELSE [exists |-> TRUE, data |-> <<HeaderLine(t)>>]

append_piece(file, t, n) ==
    LET f == IF n = 1 THEN open_append(file, t) ELSE file
    IN  [f EXCEPT !.data = Append(@, NthPiece(t, n))]

\* df.to_csv(output_file, mode='a', ...): one write call
AppendRel(t) ==
    /\ pc[t] = "append_rel"
    /\ output_file' = append_piece(output_file, t, cursor[t] + 1)
    /\ IF cursor[t] + 1 = 2 * Len(df[t].rows)
       THEN /\ pc' = [pc EXCEPT ![t] = "append_cg"]
            /\ cursor' = [cursor EXCEPT ![t] = 0]
       ELSE /\ pc' = pc
            /\ cursor' = [cursor EXCEPT ![t] = @ + 1]
    /\ UNCHANGED <<loading, inputs, unique_column_names, compound_gene_file, main_pc, df, merged_df, result>>

\* df[['cid', 'target_geneid', 'activity', 'aid']].to_csv(compound_gene_file,
\* mode='a', ...): one write call
AppendCG(t) ==
    /\ pc[t] = "append_cg"
    /\ compound_gene_file' = append_piece(compound_gene_file, t, cursor[t] + 1)
    /\ IF cursor[t] + 1 = 2 * Len(df[t].rows)
       THEN /\ pc' = [pc EXCEPT ![t] = "done"]
            /\ cursor' = [cursor EXCEPT ![t] = 0]
       ELSE /\ pc' = pc
            /\ cursor' = [cursor EXCEPT ![t] = @ + 1]
    /\ UNCHANGED <<loading, inputs, unique_column_names, output_file, main_pc, df, merged_df, result>>

\* A to_csv call raises (OSError: no space left, ...): the except clause of
\* process_partition logs it and the task ends
AppendRaises(t) ==
    /\ pc[t] \in {"append_rel", "append_cg"}
    /\ pc' = [pc EXCEPT ![t] = "failed"]
    /\ UNCHANGED <<loading, inputs, unique_column_names, output_file, compound_gene_file, main_pc,
                   df, cursor, merged_df, result>>

\* dask.compute(*tasks) returns when every task has ended
Finish ==
    /\ main_pc = "compute"
    /\ \A t \in Tasks : pc[t] \in {"done", "failed"}
    /\ main_pc' = "finished"
    /\ UNCHANGED <<loading, inputs, unique_column_names, output_file, compound_gene_file, pc, df,
                   cursor, merged_df, result>>

Next ==
    \/ RemoveOutputs
    \/ GetColumns
    \/ WriteHeaders
    \/ ReadFile
    \/ \E t \in Tasks : Transform(t)
    \/ \E t \in Tasks : AppendRel(t)
    \/ \E t \in Tasks : AppendCG(t)
    \/ \E t \in Tasks : AppendRaises(t)
    \/ Finish

(***************************************************************************)
(* Inputs: the source file, the master file and the files left by an       *)
(* earlier run.                                                            *)
(***************************************************************************)
MaxRows == 2

CoreColumns == {"aid", "cid", "activity_outcome", "assay_name", "activity_name",
                "activity_direction"}
HeaderChoices == {CoreColumns, CoreColumns \cup {"sid", "phenotype"}, CoreColumns \ {"cid"}}

inhibition_assay == Str(<<"C","Y","P","3","A","4"," ","i","n","h","i","b","i","t","i","o","n"," ","a","s","s","a","y">>)
induction_assay == Str(<<"i","n","d","u","c","t","i","o","n"," ","o","f"," ","C","Y","P","1","A","2">>)
Inconclusive == Str(<<"I","n","c","o","n","c","l","u","s","i","v","e">>)

SourceRow(aid, cid, outcome, assay_name, phenotype) ==
    [EmptyRow EXCEPT !.aid = aid, !.cid = cid, !.activity_outcome = outcome,
                     !.assay_name = assay_name, !.activity_name = Str(<<"I","C","5","0">>),
                     !.phenotype = phenotype, !.sid = Num(55)]

\* Rows that differ in their key columns, rows that differ in what the
\* classifier reads, and a row whose aid is not a number
KeyRows ==
    {SourceRow(aid, cid, Active, inhibition_assay, NA) :
        aid \in {NA, Num(1), Flt(1, 5)}, cid \in {NA, Num(1)}}
OutcomeRows ==
    {SourceRow(Num(2), Num(1), oa[1], oa[2], Str(<<"X">>)) :
        oa \in {<<Active, inhibition_assay>>, <<Active, NA>>,
                <<InactiveOutcome, inhibition_assay>>, <<InactiveOutcome, NA>>,
                <<Inconclusive, inhibition_assay>>, <<NA, inhibition_assay>>}}
BadRow == SourceRow(Str(<<"a","b","c">>), Num(1), Active, inhibition_assay, NA)
RowPool == KeyRows \cup OutcomeRows \cup {BadRow}

\* A row as read from a file with the columns have
Restrict(row, have) == [c \in Columns |-> IF c \in have THEN row[c] ELSE NA]

SeqsUpTo(S, n) == UNION {[1..k -> S] : k \in 0..n}

\* The master file: its columns and its partitions
RefColumns == {"aid", "cid", "activity_outcome", "assay_name", "target_geneid"}
RefRow(aid, cid, outcome, assay_name, gene) ==
    [EmptyRow EXCEPT !.aid = aid, !.cid = cid, !.activity_outcome = outcome,
                     !.assay_name = assay_name, !.target_geneid = gene]
ReferenceChoices ==
    { <<>>,
      << <<RefRow(Num(1), Num(1), Active, induction_assay, Num(1576))>>,
         <<RefRow(Num(2), Num(1), InactiveOutcome, inhibition_assay, NA),
           RefRow(NA, Num(1), Active, inhibition_assay, NA)>> >> }

StaleFile == [exists |-> TRUE, data |-> <<StaleLine>>]
NoResult == [status |-> "none", rows |-> <<>>]
NoFrame == [status |-> "none", columns |-> <<>>, rows |-> <<>>]

\* The state when process_files is called: __init__ has read the master file
InitPipeline(parts, old_files, started) ==
    /\ csv_columns \in HeaderChoices
    /\ \E chosen \in parts : partitions = [t \in Tasks |-> [r \in 1..Len(chosen[t]) |->
                                               Restrict(chosen[t][r], csv_columns)]]
    /\ ref_columns = RefColumns
    /\ \E ref \in ReferenceChoices : all_data_connected = _load_all_data_connected(ref)
    /\ unique_column_names = <<>>
    /\ output_file \in old_files
    /\ compound_gene_file = output_file
    /\ main_pc = "remove"
    /\ pc = [t \in Tasks |-> IF t \in started THEN "ready" ELSE "done"]
    /\ df = [t \in Tasks |-> NoFrame]
    /\ cursor = [t \in Tasks |-> 0]
    /\ ref_partitions = <<>>
    /\ results = <<>>
    /\ completed = <<>>
    /\ merged_df = <<>>
    /\ result = NoResult

\* Parallel tasks: every task has one of a few partitions
good_partition == <<SourceRow(Num(2), Num(1), Active, inhibition_assay, Str(<<"X">>))>>
other_partition == <<SourceRow(Num(3), Num(2), InactiveOutcome, induction_assay, NA)>>
bad_partition == <<BadRow>>
SamplePartitions == {good_partition, other_partition, bad_partition}

Init == InitPipeline([Tasks -> SamplePartitions], {NoFile, StaleFile}, Tasks)

Spec == Init /\ [][Next]_vars

\* A file of one partition: every partition of up to MaxRows rows of RowPool
InitChunk ==
    InitPipeline({[t \in Tasks |-> IF t = 1 THEN p ELSE <<>>] : p \in SeqsUpTo(RowPool, MaxRows)},
                 {StaleFile}, {1})

SpecChunk == InitChunk /\ [][Next]_vars

(***************************************************************************)
(* _determine_labels_and_activity called on its own.                       *)
(***************************************************************************)
LabelRow(aid, outcome, assay_name, activity_name, direction) ==
    [EmptyRow EXCEPT !.aid = aid, !.cid = Num(1), !.activity_outcome = outcome,
                     !.assay_name = assay_name, !.activity_name = activity_name,
                     !.activity_direction = direction]

AssayNames ==
    {NA, inhibition_assay, induction_assay, Str(<<"B","i","n","d","i","n","g"," ","a","f","f","i","n","i","t","y"," ","t","o"," ","C","Y","P","2","D","6">>),
     Str(<<"A","c","t","i","v","i","t","y"," ","o","f"," ","C","Y","P","3","A","4"," ","o","x","i","d","a","t","i","o","n">>), Str(<<"E","f","f","e","c","t"," ","o","n"," ","C","Y","P"," ","i","n","h","i","b","i","t","i","o","n">>),
     Str(<<"E","f","f","e","c","t"," ","o","n"," ","C","Y","P"," ","i","n","d","u","c","t","i","o","n">>), Str(<<"C","y","t","o","t","o","x","i","c","i","t","y">>)}
ActivityNames == {NA, Str(<<"K","m">>), Str(<<"I","C","5","0">>)}
Directions == {NA, Str(<<"D","e","c","r","e","a","s","i","n","g">>), Str(<<"i","n","c","r","e","a","s","i","n","g">>), Str(<<"I","n","c","r","e","a","s","i","n","g"," ","o","r"," ","d","e","c","r","e","a","s","i","n","g">>)}
Outcomes == {NA, Active, InactiveOutcome, Inconclusive}
Aids == {Num(7), Num(SpecialAid)}

LabelRows ==
    {LabelRow(aid, outcome, assay_name, activity_name, direction) :
        aid \in Aids, outcome \in Outcomes, assay_name \in AssayNames,
        activity_name \in ActivityNames, direction \in Directions}

\* A second row of the frame: none, an Active row, an Active row without
\* assay_name
Companions ==
    {<<>>, <<LabelRow(Num(7), Active, inhibition_assay, NA, NA)>>,
     <<LabelRow(Num(7), Active, NA, NA, NA)>>}

InitLabel ==
    /\ \E row \in LabelRows, more \in Companions : merged_df = <<row>> \o more
    /\ result = NoResult
    /\ csv_columns = {}
    /\ partitions = [t \in Tasks |-> <<>>]
    /\ ref_columns = {}
    /\ all_data_connected = <<>>
    /\ unique_column_names = <<>>
    /\ output_file = NoFile
    /\ compound_gene_file = NoFile
    /\ main_pc = "finished"
    /\ pc = [t \in Tasks |-> "done"]
    /\ df = [t \in Tasks |-> NoFrame]
    /\ cursor = [t \in Tasks |-> 0]
    /\ ref_partitions = <<>>
    /\ results = <<>>
    /\ completed = <<>>

Classify ==
    /\ result.status = "none"
    /\ merged_df # <<>>
    /\ LET res == _determine_labels_and_activity(merged_df)
       IN  result' = IF res.raised THEN [status |-> "raised", rows |-> <<>>]
                     ELSE [status |-> "ok", rows |-> res.rows]
    /\ UNCHANGED <<loading, inputs, unique_column_names, output_file, compound_gene_file, main_pc,
                   pc, df, cursor, merged_df>>

NextLabel == Classify

SpecLabel == InitLabel /\ [][NextLabel]_vars

(***************************************************************************)
(* What the files hold.                                                    *)
(***************************************************************************)
\* The row a piece of a file belongs to, and the columns it was written with
RowOf(piece) == df[piece.task].rows[piece.idx]
ColumnsOf(piece) == df[piece.task].columns
RowPieces(file) == {file.data[n] : n \in {m \in 1..Len(file.data) : file.data[m].kind = "row"}}

\* The lines of a file: a line ends with a piece that is a tail; pieces after
\* the last tail are an unfinished line
LineEnds(data) == {n \in 1..Len(data) : data[n].part = "tail"} \cup
                  (IF data # <<>> THEN {Len(data)} ELSE {})
LineStart(data, n) ==
    LET before == {m \in LineEnds(data) : m < n}
    IN  IF before = {} THEN 1 ELSE 1 + CHOOSE m \in before : \A k \in before : k <= m
Line(data, n) == SubSeq(data, LineStart(data, n), n)
Lines(file) == {Line(file.data, n) : n \in LineEnds(file.data)}
HeaderLines(file) == {l \in Lines(file) : \E n \in 1..Len(l) : l[n].kind = "header"}
DataLines(file) == Lines(file) \ HeaderLines(file)

\* The line of row r of the frame of task t, written whole
WholeLine(t, r) == <<Piece(t, r, "head"), Piece(t, r, "tail")>>
RowsToWrite(t) == IF df[t].status = "rows" THEN 1..Len(df[t].rows) ELSE {}
ExpectedLines == UNION {{WholeLine(t, r) : r \in RowsToWrite(t)} : t \in Tasks}

OneHeaderThenRows(file) ==
    /\ file.exists
    /\ file.data # <<>>
    /\ file.data[1] = HeaderLine(0)
    /\ HeaderLines(file) = {<<HeaderLine(0)>>}
    /\ DataLines(file) = ExpectedLines
    /\ Len(file.data) = 1 + 2 * Cardinality(ExpectedLines)

AllCompleted == main_pc = "finished" /\ \A t \in Tasks : pc[t] = "done"

\* C1: when all the chunk tasks have completed, each output file is one
\* header line followed by one whole line for every row of every chunk, and
\* by nothing else (no line made of pieces of different rows).
C1_OneHeaderWholeRows ==
    AllCompleted => OneHeaderThenRows(output_file) /\ OneHeaderThenRows(compound_gene_file)

\* A task is inside an append when it has written part of its frame to the
\* file and not yet all of it
InAppendRel(t) == pc[t] = "append_rel" /\ cursor[t] > 0
InAppendCG(t) == pc[t] = "append_cg" /\ cursor[t] > 0

\* C2: at most one task is inside the append on the relationship file, and
\* at most one inside the append on the compound-gene file.
C2_AppendsMutuallyExclusive ==
    \A t, u \in Tasks :
        t # u => /\ ~(InAppendRel(t) /\ InAppendRel(u))
                 /\ ~(InAppendCG(t) /\ InAppendCG(u))

Written == RowPieces(output_file) \cup RowPieces(compound_gene_file)

\* C3: every row written to either file has aid and cid present and is not
\* the row aid = 1, cid = 1.
C3_KeysOfWrittenRows ==
    \A piece \in Written :
        /\ ~isna(RowOf(piece).aid)
        /\ ~isna(RowOf(piece).cid)
        /\ ~(RowOf(piece).aid = Num(1) /\ RowOf(piece).cid = Num(1))

\* C3 happens: rows were written from a partition that also held a row
\* without aid, or the row aid = 1, cid = 1, or a row that the reference
\* record turns into aid = 1, cid = 1
C3_Witness ==
    /\ Written # {}
    /\ \E n \in 1..Len(partitions[1]) :
          \/ partitions[1][n].aid = Num(1) /\ partitions[1][n].cid = Num(1)
          \/ isna(partitions[1][n].aid)
    /\ pc[1] = "done"

Classified == result.status = "ok"
DecreasingOnly == {Str(<<"D","e","c","r","e","a","s","i","n","g">>)}
IncreasingOnly == {Str(<<"i","n","c","r","e","a","s","i","n","g">>)}
BothDirections == {Str(<<"I","n","c","r","e","a","s","i","n","g"," ","o","r"," ","d","e","c","r","e","a","s","i","n","g">>)}
IsSpecial(row) == row.aid = Num(SpecialAid)

\* C4 as claimed: every Active row whose activity_direction contains
\* "decreasing" is labelled Inhibitor, whatever its other fields are.
C4_DecreasingAlwaysInhibitor ==
    Classified =>
        \A r \in 1..Len(merged_df) :
            (/\ merged_df[r].activity_outcome = Active
             /\ merged_df[r].activity_direction \in DecreasingOnly \cup BothDirections)
            => result.rows[r].activity = Inhibitor

\* C4 amended: every Active row whose activity_direction contains
\* "decreasing" is labelled Inhibitor whatever the keyword scan and the
\* activity_name and assay_name rules gave, unless the direction also
\* contains "increasing" or aid is 1215398; then the later rule decides:
\* Inactivator for aid 1215398, else Activator.
C4_DecreasingInhibitorUnlessLaterRule ==
    Classified =>
        \A r \in 1..Len(merged_df) :
            (/\ merged_df[r].activity_outcome = Active
             /\ merged_df[r].activity_direction \in DecreasingOnly \cup BothDirections)
            => result.rows[r].activity =
                  IF IsSpecial(merged_df[r]) THEN Inactivator
                  ELSE IF merged_df[r].activity_direction \in BothDirections THEN Activator
                  ELSE Inhibitor

\* C4 happens: a row that the assay_name rules label Inducer and the
\* activity_name rule would label Substrate is labelled Inhibitor
C4_Witness ==
    /\ Classified
    /\ merged_df[1].activity_outcome = Active
    /\ merged_df[1].activity_direction \in DecreasingOnly
    /\ merged_df[1].assay_name = induction_assay
    /\ merged_df[1].activity_name = Str(<<"K","m">>)
    /\ result.rows[1].activity = Inhibitor

\* C5: every Active row with aid 1215398 is labelled Inactivator.
C5_SpecialAidInactivator ==
    Classified =>
        \A r \in 1..Len(merged_df) :
            (merged_df[r].activity_outcome = Active /\ IsSpecial(merged_df[r]))
            => result.rows[r].activity = Inactivator

\* C5 happens: a row with aid 1215398 that satisfies the activity_name rule,
\* an assay_name rule and both direction rules
C5_Witness ==
    /\ Classified
    /\ merged_df[1].activity_outcome = Active
    /\ IsSpecial(merged_df[1])
    /\ merged_df[1].activity_direction \in BothDirections
    /\ merged_df[1].assay_name = induction_assay
    /\ merged_df[1].activity_name = Str(<<"K","m">>)
    /\ result.rows[1].activity = Inactivator

\* C6: every row whose activity_outcome is Inactive ends with the label
\* Inactive.
C6_InactiveIsTerminal ==
    Classified =>
        \A r \in 1..Len(merged_df) :
            merged_df[r].activity_outcome = InactiveOutcome
            => result.rows[r].activity = Inactive

\* C6 happens: an Inactive row that satisfies the predicates of the later
\* rules, in a frame with an Active row, so that the later rules run
C6_Witness ==
    /\ Classified
    /\ Len(merged_df) = 2
    /\ merged_df[2].activity_outcome = Active
    /\ merged_df[1].activity_outcome = InactiveOutcome
    /\ IsSpecial(merged_df[1])
    /\ merged_df[1].activity_direction \in DecreasingOnly
    /\ merged_df[1].assay_name = induction_assay
    /\ merged_df[1].activity_name = Str(<<"K","m">>)
    /\ result.rows[1].activity = Inactive
    /\ result.rows[2].activity = Inhibitor

ActivityLabels == {Inactive, Inhibitor, Ligand, InhibitorSubstrate, InhibitorInducerModulator,
                   Substrate, Inactivator, Activator, Inducer}

\* C7 as claimed: every row written to either file has one of the nine
\* labels, whatever its activity_outcome is.
C7_EveryWrittenRowLabelled ==
    \A piece \in Written : RowOf(piece).activity \in ActivityLabels

\* C7 amended: every row written to either file whose activity_outcome is
\* Active or Inactive has one of the nine labels; a written row with any
\* other activity_outcome, or none, has no activity.
C7_ActiveInactiveRowsLabelled ==
    \A piece \in Written :
        IF RowOf(piece).activity_outcome \in {Active, InactiveOutcome}
        THEN RowOf(piece).activity \in ActivityLabels
        ELSE isna(RowOf(piece).activity)

\* C7 happens: rows with each kind of activity_outcome have been written
C7_Witness ==
    /\ pc[1] = "done"
    /\ \E p, q \in RowPieces(compound_gene_file) :
          /\ RowOf(p).activity_outcome = InactiveOutcome
          /\ RowOf(p).activity = Inactive
          /\ RowOf(q).activity_outcome = Inconclusive
          /\ isna(RowOf(q).activity)

\* C8: every row appended to the relationship file was written with exactly
\* the columns of the header written by _filter_and_clean_data, in that
\* order.
C8_RowsHaveHeaderColumns ==
    \A piece \in RowPieces(output_file) : ColumnsOf(piece) = unique_column_names

PiecesOf(t) == {piece \in Written : piece.task = t}

\* C9: a chunk whose processing raised has no row in either file, and when
\* the run has finished every row of every other chunk is in both files.
C9_FailedChunkDiscardedWhole ==
    /\ \A t \in Tasks : pc[t] = "failed" => PiecesOf(t) = {}
    /\ main_pc = "finished" =>
          \A t \in Tasks : pc[t] = "done" =>
              \A r \in RowsToWrite(t) :
                  /\ {Piece(t, r, "head"), Piece(t, r, "tail")} \subseteq RowPieces(output_file)
                  /\ {Piece(t, r, "head"), Piece(t, r, "tail")} \subseteq RowPieces(compound_gene_file)

\* C10: when the run has finished the two files hold the same rows: a line
\* is in the relationship file exactly when the line of the same row is in
\* the compound-gene file.
C10_SameRowsInBothFiles ==
    main_pc = "finished" => DataLines(output_file) = DataLines(compound_gene_file)

(***************************************************************************)
(* Failures and the end of the run.                                        *)
(***************************************************************************)
\* C11: process_files never ends with an exception once the master file has
\* been read and a source file exists: no exception of a per-file or
\* per-chunk task leaves that task.
C11_NoExceptionLeavesATask == main_pc # "aborted"

\* A key that is present and that int() accepts
parseable(row) == (isna(row.aid) \/ can_int(row.aid)) /\ (isna(row.cid) \/ can_int(row.cid))

\* The rows a task has to write after its transformation
rows_of(frame) == IF frame.status = "rows" THEN frame.rows ELSE <<>>

\* C12: a row whose aid or cid cannot be parsed as an integer is dropped on
\* its own: the frame a task has after its transformation is the one it
\* would have for the same chunk without those rows, so the rows with valid
\* keys are processed and written.
C12_BadKeyRowsDroppedAlone ==
    \A t \in Tasks :
        df[t].status # "none" =>
            rows_of(df[t]) =
                rows_of(process_partition(SelectSeq(partitions[t], parseable), csv_columns,
                                          unique_column_names, all_data_connected, ref_columns))

(***************************************************************************)
(* The order of the override rules.                                        *)
(***************************************************************************)
\* The predicates of the override steps on a row of the argument
in_activity_names(row) == row.activity_name \in {Str(<<"K","m">>), Str(<<"D","r","u","g"," ","m","e","t","a","b","o","l","i","s","m">>)}
is_substrate_assay(row) == str_contains(row.assay_name, substrate_pattern)
is_effect_assay(row) == str_contains(row.assay_name, ActIndMod_pattern)
is_induction_assay(row) == str_contains(row.assay_name, inducer_pattern)
is_decreasing(row) == str_contains(row.activity_direction, decreasing_pattern)
is_increasing(row) == str_contains(row.activity_direction, increasing_pattern)

\* The label of the last step, in the order of the statements, whose
\* predicate the row satisfies; the keyword-scan label when there is none
last_override(row) ==
    CASE IsSpecial(row) -> Inactivator
      [] ~IsSpecial(row) /\ is_increasing(row) -> Activator
      [] ~IsSpecial(row) /\ ~is_increasing(row) /\ is_decreasing(row) -> Inhibitor
      [] OTHER ->
            IF is_induction_assay(row) THEN Inducer
            ELSE IF is_effect_assay(row) THEN InhibitorInducerModulator
            ELSE IF is_substrate_assay(row) \/ in_activity_names(row) THEN Substrate
            ELSE apply_determine_active_label(row.assay_name.s)

\* C13: every Active row ends with the label of the last override step, in
\* the order activity_name, substrate pattern, "effect on CYP" pattern,
\* induction pattern, decreasing, increasing, aid 1215398, whose predicate
\* it satisfies, and with the keyword-scan label when it satisfies none.
C13_LastMatchingOverrideWins ==
    Classified =>
        \A r \in 1..Len(merged_df) :
            merged_df[r].activity_outcome = Active
            => result.rows[r].activity = last_override(merged_df[r])

\* C13 happens: a row that satisfies the activity_name, "effect on CYP" and
\* induction predicates and no later one is labelled Inducer
C13_Witness ==
    /\ Classified
    /\ merged_df[1].activity_outcome = Active
    /\ ~IsSpecial(merged_df[1])
    /\ merged_df[1].assay_name = Str(<<"E","f","f","e","c","t"," ","o","n"," ","C","Y","P"," ","i","n","d","u","c","t","i","o","n">>)
    /\ in_activity_names(merged_df[1])
    /\ isna(merged_df[1].activity_direction)
    /\ result.rows[1].activity = Inducer

(***************************************************************************)
(* determine_active_label called on its own, on assay names made of one or *)
(* two fragments.                                                          *)
(***************************************************************************)
Fragments ==
    {<<"I","n","h","i","b","i","t","i","o","n"," ","o","f"," ">>, <<"b","i","n","d","i","n","g"," ","a","f","f","i","n","i","t","y"," ">>, <<"o","x","i","d","a","t","i","o","n"," ">>, <<"i","n","d","u","c","t","i","o","n"," ","o","f"," ">>, <<"C","Y","P","3","A","4"," ">>,
     <<"i","n","a","c","t","i","v","a","t","i","o","n"," ","o","f"," ">>, <<"a","c","t","i","v","a","t","i","o","n"," ","o","f"," ">>, <<"p","a","n","e","l"," ","a","s","s","a","y"," ">>, <<"I","N","D","U","C","E","R","S"," ">>, <<"m","e","t","a","b","o","l","i","c"," ","s","t","a","b","i","l","i","t","y"," ">>}
ScanNames == {<<>>} \cup Fragments \cup {f \o g : f \in Fragments, g \in Fragments}

InitScan ==
    /\ \E name \in ScanNames : merged_df = <<[EmptyRow EXCEPT !.assay_name = Str(name)]>>
    /\ result = NoResult
    /\ csv_columns = {}
    /\ partitions = [t \in Tasks |-> <<>>]
    /\ ref_columns = {}
    /\ all_data_connected = <<>>
    /\ unique_column_names = <<>>
    /\ output_file = NoFile
    /\ compound_gene_file = NoFile
    /\ main_pc = "finished"
    /\ pc = [t \in Tasks |-> "done"]
    /\ df = [t \in Tasks |-> NoFrame]
    /\ cursor = [t \in Tasks |-> 0]
    /\ ref_partitions = <<>>
    /\ results = <<>>
    /\ completed = <<>>

\* One call: the keyword the loop ends with and the label returned
Scan ==
    /\ result.status = "none"
    /\ LET assay_name == merged_df[1].assay_name.s
       IN  result' = [status |-> "label", rows |-> <<>>,
                      first_keyword |-> first_keyword(assay_name),
                      label |-> determine_active_label(assay_name)]
    /\ UNCHANGED <<loading, inputs, unique_column_names, output_file, compound_gene_file, main_pc,
                   pc, df, cursor, merged_df>>

NextScan == Scan

SpecScan == InitScan /\ [][NextScan]_vars

\* The list a keyword is in gives its category
category(keyword) ==
    CASE InSeq(keyword, inhibitor_keywords) -> Inhibitor
      [] InSeq(keyword, ligand_keywords) -> Ligand
      [] InSeq(keyword, inhibitor_substrate_keywords) -> InhibitorSubstrate
      [] InSeq(keyword, inhibitor_activator_modulator_keywords) -> InhibitorInducerModulator
      [] InSeq(keyword, substrate_keywords) -> Substrate
      [] InSeq(keyword, inactivator_keywords) -> Inactivator
      [] InSeq(keyword, activator_keywords) -> Activator
      [] InSeq(keyword, inducer_keywords) -> Inducer

\* The keywords that occur in text and the position of their first
\* occurrence
occurring(text) == {n \in 1..Len(all_keywords) : \E p \in 0..Len(text) : MatchAt(text, all_keywords[n], p)}
first_occurrence(text, n) ==
    CHOOSE p \in 0..Len(text) :
        /\ MatchAt(text, all_keywords[n], p)
        /\ \A q \in 0..(p - 1) : ~MatchAt(text, all_keywords[n], q)
earliest(text) ==
    CHOOSE n \in occurring(text) :
        \A m \in occurring(text) :
            \/ first_occurrence(text, n) < first_occurrence(text, m)
            \/ first_occurrence(text, n) = first_occurrence(text, m) /\ n <= m

\* C14: determine_active_label returns the category of the keyword whose
\* first occurrence in the lower-cased assay name is at the smallest
\* position, the earliest in all_keywords among those at that position, and
\* Inhibitor/Inducer/Modulator when no keyword occurs.
C14_EarliestKeywordDecides ==
    result.status = "label" =>
        LET text == lower(merged_df[1].assay_name.s)
        IN  IF occurring(text) = {}
            THEN result.first_keyword = 0 /\ result.label = InhibitorInducerModulator
            ELSE /\ result.first_keyword = earliest(text)
                 /\ result.label = category(all_keywords[earliest(text)])

\* C14 happens: two keywords of one category occur at the smallest position
\* and a keyword of another category occurs earlier in the list and later
\* in the name
C14_Witness ==
    /\ result.status = "label"
    /\ merged_df[1].assay_name = Str(<<"C","Y","P","3","A","4"," ","b","i","n","d","i","n","g"," ","a","f","f","i","n","i","t","y"," ">>)
    /\ result.label = Ligand
    /\ \E n, m \in occurring(lower(merged_df[1].assay_name.s)) :
          /\ n # m
          /\ first_occurrence(lower(merged_df[1].assay_name.s), n) = 7
          /\ first_occurrence(lower(merged_df[1].assay_name.s), m) = 7

(***************************************************************************)
(* The order of a run.                                                     *)
(***************************************************************************)
\* A file as _filter_and_clean_data leaves it before the tasks: it exists,
\* starts with the header row and holds no other header and nothing of an
\* earlier run
Initialised(file) ==
    /\ file.exists
    /\ file.data # <<>>
    /\ file.data[1] = HeaderLine(0)
    /\ \A n \in 2..Len(file.data) : file.data[n].kind = "row"
SetUp ==
    /\ Initialised(output_file)
    /\ Initialised(compound_gene_file)
    /\ unique_column_names # <<>>

\* A step leaves what the file held and adds nothing or rows
AppendOnly(before, after) ==
    /\ after.exists
    /\ Len(after.data) >= Len(before.data)
    /\ SubSeq(after.data, 1, Len(before.data)) = before.data
    /\ \A n \in (Len(before.data) + 1)..Len(after.data) : after.data[n].kind = "row"

\* C15: a transformation task starts only when the reference index and the
\* column list are built and both files hold just their header row; from
\* then on every step leaves both files in place and adds nothing but rows
\* to them.
C15_SetUpThenAppendOnly ==
    [][/\ df' # df => SetUp
       /\ SetUp => /\ AppendOnly(output_file, output_file')
                   /\ AppendOnly(compound_gene_file, compound_gene_file')
                   /\ unique_column_names' = unique_column_names]_vars

\* C15 happens: the files of an earlier run were replaced and a task has
\* appended all its rows to both
C15_Witness ==
    /\ main_pc = "finished"
    /\ pc[1] = "done"
    /\ df[1].status = "rows"
    /\ Len(output_file.data) = 1 + 2 * Len(df[1].rows)
    /\ Len(compound_gene_file.data) = 1 + 2 * Len(df[1].rows)
    /\ Initialised(output_file)
    /\ Initialised(compound_gene_file)

InitAugment ==
    /\ csv_columns \in HeaderChoices
    /\ ref_columns = RefColumns
    /\ \E ref \in ReferenceChoices : all_data_connected = _load_all_data_connected(ref)
    /\ unique_column_names = _get_filtered_columns \o <<"activity">>
    /\ partitions = [t \in Tasks |-> <<>>]
    /\ \E part \in SeqsUpTo(RowPool, MaxRows) :
          merged_df = rows_to_augment([r \in 1..Len(part) |-> Restrict(part[r], csv_columns)],
                                      csv_columns, unique_column_names)
    /\ result = NoResult
    /\ output_file = NoFile
    /\ compound_gene_file = NoFile
    /\ main_pc = "finished"
    /\ pc = [t \in Tasks |-> "done"]
    /\ df = [t \in Tasks |-> NoFrame]
    /\ cursor = [t \in Tasks |-> 0]
    /\ ref_partitions = <<>>
    /\ results = <<>>
    /\ completed = <<>>

\* The apply of line 205: int() raises for a key that is not a number
Augment ==
    /\ result.status = "none"
    /\ merged_df # <<>>
    /\ result' = IF \E r \in 1..Len(merged_df) :
                       ~can_int(merged_df[r].aid) \/ ~can_int(merged_df[r].cid)
                 THEN [status |-> "raised", rows |-> <<>>]
                 ELSE [status |-> "augmented",
                       rows |-> apply_add_all_data_connected_info(merged_df, all_data_connected,
                                                                  ref_columns)]
    /\ UNCHANGED <<loading, inputs, unique_column_names, output_file, compound_gene_file, main_pc,
                   pc, df, cursor, merged_df>>

NextAugment == Augment

SpecAugment == InitAugment /\ [][NextAugment]_vars

\* The key of a row is in the index (a missing activity_outcome equals no
\* key)
InIndex(row) ==
    /\ ~isna(row.activity_outcome)
    /\ <<int(row.aid), int(row.cid), row.activity_outcome>> \in DOMAIN all_data_connected
Record(row) == all_data_connected[<<int(row.aid), int(row.cid), row.activity_outcome>>]

NumRefParts == 2
MaxRefRows == 3

\* Rows of the master file: two with the key (1, 1, Active), one of them
\* through int(1.5), one with another key, one without aid
RefPool ==
    {RefRow(Num(1), Num(1), Active, induction_assay, Num(1576)),
     RefRow(Flt(1, 5), Num(1), Active, inhibition_assay, Num(1544)),
     RefRow(Num(2), Num(1), InactiveOutcome, inhibition_assay, NA),
     RefRow(NA, Num(1), Active, inhibition_assay, NA)}

\* The ways to cut a file of len rows into NumRefParts consecutive blocks:
\* the index of the last row of each block
Cuts(len) ==
    {c \in [1..NumRefParts -> 0..len] :
        /\ c[NumRefParts] = len
        /\ \A n \in 1..(NumRefParts - 1) : c[n] <= c[n + 1]}
Blocks(file, c) ==
    [n \in 1..NumRefParts |-> SubSeq(file, (IF n = 1 THEN 0 ELSE c[n - 1]) + 1, c[n])]

NotComputed == [computed |-> FALSE, dict |-> <<>>]

InitLoad ==
    /\ \E file \in SeqsUpTo(RefPool, MaxRefRows) :
          \E c \in Cuts(Len(file)) : ref_partitions = Blocks(file, c)
    /\ results = [n \in 1..NumRefParts |-> NotComputed]
    /\ completed = <<>>
    /\ all_data_connected = <<>>
    /\ ref_columns = RefColumns
    /\ csv_columns = {}
    /\ partitions = [t \in Tasks |-> <<>>]
    /\ unique_column_names = <<>>
    /\ output_file = NoFile
    /\ compound_gene_file = NoFile
    /\ main_pc = "load"
    /\ pc = [t \in Tasks |-> "done"]
    /\ df = [t \in Tasks |-> NoFrame]
    /\ cursor = [t \in Tasks |-> 0]
    /\ merged_df = <<>>
    /\ result = NoResult

\* The delayed process_partition of one partition runs to its end
LoadPartition(n) ==
    /\ main_pc = "load"
    /\ ~results[n].computed
    /\ results' = [results EXCEPT ![n] = [computed |-> TRUE, dict |-> load_partition(ref_partitions[n])]]
    /\ completed' = Append(completed, n)
    /\ UNCHANGED <<inputs, ref_partitions, unique_column_names, output_file, compound_gene_file,
                   main_pc, pc, df, cursor, merged_df, result>>

\* dask.compute(*[...]) has every result: the loop of lines 68-69
MergeResults ==
    /\ main_pc = "load"
    /\ \A n \in 1..NumRefParts : results[n].computed
    /\ all_data_connected' = merge_results(compute(results, completed), <<>>)
    /\ main_pc' = "loaded"
    /\ UNCHANGED <<csv_columns, partitions, ref_columns, loading, unique_column_names,
                   output_file, compound_gene_file, pc, df, cursor, merged_df, result>>

NextLoad ==
    \/ \E n \in 1..NumRefParts : LoadPartition(n)
    \/ MergeResults

SpecLoad == InitLoad /\ [][NextLoad]_vars

\* The rows of the master file in file order, and those that have a key
RECURSIVE Concat(_)
Concat(seqs) == IF seqs = <<>> THEN <<>> ELSE Head(seqs) \o Concat(Tail(seqs))
KeyedRows == SelectSeq(Concat(ref_partitions), LAMBDA row : ~isna(row.aid) /\ ~isna(row.cid))
RefKey(row) == <<int(row.aid), int(row.cid), row.activity_outcome>>
LastWith(key) ==
    CHOOSE n \in 1..Len(KeyedRows) :
        /\ RefKey(KeyedRows[n]) = key
        /\ \A m \in (n + 1)..Len(KeyedRows) : RefKey(KeyedRows[m]) # key

\* C18: whatever the order in which the partition tasks completed, the
\* index holds exactly the keys of the rows of the file, each with the last
\* row in file order that has the key.
C18_IndexIsLastRowPerKey ==
    main_pc = "loaded" =>
        /\ DOMAIN all_data_connected = {RefKey(KeyedRows[n]) : n \in 1..Len(KeyedRows)}
        /\ \A key \in DOMAIN all_data_connected :
              all_data_connected[key] = KeyedRows[LastWith(key)]

\* C18 happens: the task of the second partition completed first, and the
\* two partitions hold different rows with one key
C18_Witness ==
    /\ main_pc = "loaded"
    /\ completed = <<2, 1>>
    /\ \E n \in 1..Len(ref_partitions[1]), m \in 1..Len(ref_partitions[2]) :
          /\ ref_partitions[1][n].aid = Num(1)
          /\ ref_partitions[2][m].aid = Flt(1, 5)
          /\ all_data_connected[<<1, 1, Active>>] = ref_partitions[2][m]

(***************************************************************************)
(* The group-by step of lines 207-208 on its own, on frames that have the  *)
(* columns phenotype and assay_name.                                       *)
(***************************************************************************)
MaxGroupRows == 3

GroupRow(aid, outcome, assay_name, phenotype) ==
    [EmptyRow EXCEPT !.aid = aid, !.cid = Num(1), !.activity_outcome = outcome,
                     !.assay_name = assay_name, !.phenotype = phenotype]

\* Two groups and rows without assay_name, with no, one or another
\* phenotype, and a row without activity_outcome
GroupPool ==
    {GroupRow(aid, InactiveOutcome, assay_name, phenotype) :
        aid \in {Num(2), Num(3)}, assay_name \in {inhibition_assay, induction_assay, NA},
        phenotype \in {NA, Str(<<"X">>), Str(<<"Y">>)}}
    \cup {GroupRow(Num(2), NA, inhibition_assay, Str(<<"X">>))}

InitGroup ==
    /\ \E frame \in SeqsUpTo(GroupPool, MaxGroupRows) : merged_df = frame
    /\ result = NoResult
    /\ csv_columns = CoreColumns \cup {"sid", "phenotype"}
    /\ partitions = [t \in Tasks |-> <<>>]
    /\ ref_columns = {}
    /\ all_data_connected = <<>>
    /\ unique_column_names = <<>>
    /\ output_file = NoFile
    /\ compound_gene_file = NoFile
    /\ main_pc = "finished"
    /\ pc = [t \in Tasks |-> "done"]
    /\ df = [t \in Tasks |-> NoFrame]
    /\ cursor = [t \in Tasks |-> 0]
    /\ ref_partitions = <<>>
    /\ results = <<>>
    /\ completed = <<>>

\* Lines 207-208: the group-by runs when no activity_outcome is missing
Propagate ==
    /\ result.status = "none"
    /\ merged_df # <<>>
    /\ result' = IF activity_outcome_notna_all(merged_df)
                 THEN [status |-> "propagated", rows |-> groupby_propagate(merged_df)]
                 ELSE [status |-> "skipped", rows |-> merged_df]
    /\ UNCHANGED <<loading, inputs, unique_column_names, output_file, compound_gene_file, main_pc,
                   pc, df, cursor, merged_df>>

NextGroup == Propagate

SpecGroup == InitGroup /\ [][NextGroup]_vars

\* How often x is in a sequence
Count(seq, x) == Cardinality({n \in 1..Len(seq) : seq[n] = x})
SameBag(s, t) ==
    \A x \in {s[n] : n \in 1..Len(s)} \cup {t[n] : n \in 1..Len(t)} : Count(s, x) = Count(t, x)

\* The rows of the frame that share activity_outcome and assay_name with
\* row, both present, and the first phenotype among them that is not
\* missing
Grouped(row) == ~isna(row.activity_outcome) /\ ~isna(row.assay_name)
GroupOf(row) ==
    SelectSeq(merged_df, LAMBDA other : /\ other.activity_outcome = row.activity_outcome
                                        /\ other.assay_name = row.assay_name)
Phenotypes(group) == SelectSeq([n \in 1..Len(group) |-> group[n].phenotype], LAMBDA v : ~isna(v))
Propagated(row) ==
    IF Phenotypes(GroupOf(row)) = <<>> THEN row
    ELSE [row EXCEPT !.phenotype = Head(Phenotypes(GroupOf(row)))]

\* C19: when the group-by has run, the rows of every group are all there,
\* each with the first non-missing phenotype of its group, and unchanged
\* when the group has none.
C19_FirstPhenotypeOfGroup ==
    result.status = "propagated" =>
        LET grouped == SelectSeq(merged_df, Grouped)
        IN  SameBag(result.rows, [n \in 1..Len(grouped) |-> Propagated(grouped[n])])

\* C19 happens: a group whose phenotypes are missing, X, Y in this order
\* ends with X in its three rows
C19_Witness ==
    /\ result.status = "propagated"
    /\ Len(merged_df) = 3
    /\ \A n \in 1..3 : merged_df[n].assay_name = inhibition_assay
    /\ isna(merged_df[1].phenotype)
    /\ merged_df[2].phenotype = Str(<<"X">>)
    /\ merged_df[3].phenotype = Str(<<"Y">>)
    /\ Len(result.rows) = 3
    /\ \A n \in 1..3 : result.rows[n].phenotype = Str(<<"X">>)

KeyPairs(rows) == [n \in 1..Len(rows) |-> <<rows[n].aid, rows[n].cid>>]

\* C20: the group-by step neither removes nor adds rows: the (aid, cid)
\* pairs of the frame are the same, as often, before and after it.
C20_GroupByKeepsEveryRow ==
    result.status \in {"propagated", "skipped"} =>
        SameBag(KeyPairs(result.rows), KeyPairs(merged_df))
====
